---- MODULE Spec2Model ----
(***************************************************************************)
(* Model of the SVSM stage-2 exception dispatch and the frame-pointer      *)
(* stack unwinder.                                                         *)
(*                                                                         *)
(*   kernel/src/debug/stacktrace.rs   StackUnwinder, print_stack           *)
(*   src/cpu/idt/stage2.rs            IDT setup, generic dispatchers       *)
(*                                                                         *)
(* Addresses are counted in pointer-sized words (one unit = 8 bytes), so   *)
(* every pointer of the model is word aligned.  usize has AddrBits bits.   *)
(* Memory is fixed for a whole unwind; the model materialises a word the   *)
(* first time it is read and keeps it from then on, so a second read of    *)
(* the same address returns the same value.                                *)
(***************************************************************************)
EXTENDS Integers, Sequences, FiniteSets, TLC

\* ------------------------------------------------------------------ bounds
\* Width of usize / VirtAddr in bits.
AddrBits == 6
\* At most MaxCells words of memory are nonzero.
MaxCells == 5
\* print_stack is called with skip in 0 .. MaxSkip.
MaxSkip == 2

AddrSpace == 2 ^ AddrBits
\* usize::MAX
AddrMax == AddrSpace - 1
Addr == 0 .. AddrMax
\* The recorded history of yielded items stops growing at this length; a
\* sequence that visits no frame twice is shorter.
MaxYield == MaxCells + 2

\* --------------------------------------------------------- program constants
\* mem::size_of::<VirtAddr>(), in address units.
PtrSize == 1
\* Words of X86ExceptionContext pushed by the trampoline below the vector
\* number: r15 (offset 0) ... rax (offset 14).
RegWords == 15
\* Offset of regs.rbp: r15, r14, r13, r12, r11, r10, r9, r8 lie below it.
RbpOff == 8
\* vector, error_code, then the hardware trap frame rip, cs, rflags, rsp, ss.
VectorOff == RegWords
ErrorCodeOff == RegWords + 1
FrameOff == RegWords + 2
RipOff == FrameOff
RspOff == FrameOff + 3
\* mem::size_of::<X86ExceptionContext>(), in address units.
CtxSize == FrameOff + 5

\* The stub arrays hold one stub per vector.
NumVectors == 32
Vectors == 0 .. NumVectors - 1
\* Idt: one slot per vector.
IDT_ENTRIES == NumVectors
\* Stubs are 32 bytes apart: .align 32, and handlers + (32 * i).
StubStride == 32
\* Link addresses of the two stub arrays; each array is NumVectors stubs
\* long and the prologue push_regs_stage2 lies between them.
stage2_idt_handler_array_no_ghcb == 64
stage2_idt_handler_array == 1152
\* 0x20027d00: bit i is set when vector i comes with an error code.
ERRCODE_MASK == 537033984

\* ------------------------------------------------------------------ inputs
\* The address at which the trap trampoline resumes after a handled
\* exception (generic_idt_handler_return).
ReturnSite == 2
\* Values a memory word, and the starting rbp, are drawn from: the sentinel,
\* a return site and an ordinary code address (both outside every stack),
\* addresses inside and at the edges of the stacks, and usize::MAX.
MemVals == {0, ReturnSite, 3, 4, 6, 20, 29, AddrMax - 23, AddrMax - 2, AddrMax}
\* The smaller set the fair specification draws from.
FewVals == {0, ReturnSite, 3, 4}

Region(s, e) == [start |-> s, end |-> e]
\* init stack and double-fault stack adjacent, current stack ending at the
\* highest address a region can end at; and current stack = init stack.
SeparateStacks ==
  << Region(4, 30), Region(30, 34), Region(AddrMax - 23, AddrMax) >>
StackLayouts == { SeparateStacks, << Region(4, 30), Region(36, 40), Region(4, 30) >> }

VARIABLES
  pc,          \* "start": no unwinder yet; "iter": StackUnwinder constructed
  stacks,      \* StackUnwinder.stacks
  next_frame,  \* StackUnwinder.next_frame : Option<UnwoundStackFrame>
  mem,         \* the words of memory read so far (address -> value)
  vals,        \* the values the words of memory are drawn from
  ret,         \* what the last call of next() returned
  yielded,     \* history: the Some(..) items next() returned, first MaxYield
  chk,         \* history: the last call of check_unwound_frame and its result
  acc,         \* history: the memory access of the last unwind step
  panicked,    \* history: an arithmetic overflow/underflow happened
  rbp0,        \* history: the rbp the unwinder was constructed with
  skip,        \* print_stack: its argument
  n,           \* print_stack: Skip.n, the items still to discard
  ppc,         \* print_stack: "idle", "loop", "end", "done"
  log,         \* the lines handed to log::info!
  dpc,         \* trap: "idle", "stub", "push_regs_*", "dispatch", "vc",
               \* "returned", "panic"
  variant,     \* the dispatcher the prologue called: "ghcb" or "no_ghcb"
  ctx,         \* the X86ExceptionContext handed to the dispatcher
  cr2,         \* the CR2 register
  diag,        \* the panic message, once raised
  vc_called,   \* the #VC handler the dispatcher delegated to, if any
  trap,        \* the trap being delivered: its vector, the interrupted
               \* state the hardware saw, and the IDT target it jumped to
  kstack,      \* the words pushed since the trap, lowest address first
  idt,         \* GLOBAL_IDT: slot -> IdtEntry
  cpu,         \* per CPU: where it is in its call of early_idt_init*
  greq         \* get_report: position, arguments, requests sent, result

unwinder_vars ==
  << pc, stacks, next_frame, mem, vals, ret, yielded, chk, acc, panicked,
     rbp0 >>
print_vars == << skip, n, ppc, log >>
dispatch_vars == << dpc, variant, ctx, cr2, diag, vc_called, trap, kstack >>
idt_vars == << idt, cpu >>
vars == << unwinder_vars, print_vars, dispatch_vars, idt_vars, greq >>

\* ----------------------------------------------------------------- values
NoneV == [some |-> FALSE]
Some(x) == [some |-> TRUE, val |-> x]
Invalid == [tag |-> "Invalid"]
Valid(f) == [tag |-> "Valid", frame |-> f]

NoCheck == [called |-> FALSE]
NoAccess == [kind |-> "none", base |-> 0, len |-> 0, read |-> {}]

Min(S) == CHOOSE x \in S : \A y \in S : x <= y

\* VirtAddr + usize and VirtAddr - VirtAddr on AddrBits-wide integers.
VAdd(a, k) == (a + k) % AddrSpace
VAddOverflows(a, k) == a + k > AddrMax
VSub(a, b) == (a - b) % AddrSpace
VSubUnderflows(a, b) == a < b

\* ------------------------------------------------------------ MemoryRegion
contains(r, a) == r.start <= a /\ a < r.end
contains_region(r, o) == r.start <= o.start /\ o.end <= r.end
\* MemoryRegion::checked_new(start, len): None when start + len overflows.
checked_new(s, len) ==
  IF s + len > AddrMax THEN NoneV ELSE Some(Region(s, s + len))

is_exception_handler_return_site(rip) == rip = ReturnSite

\* A read of memory; a word not materialised reads as zero.
Load(m, a) == IF a \in DOMAIN m THEN m[a] ELSE 0

\* ------------------------------------------------------------ StackUnwinder
frame_is_last(rbp) == rbp = 0

\* Result of a step: the classified frame, whether arithmetic wrapped, and
\* the candidate handed to check_unwound_frame.
Checked(rbp, rsp, rip, stack) ==
  [uf |-> Valid([rbp |-> rbp, rip |-> rip, rsp |-> rsp,
                 is_last |-> frame_is_last(rbp),
                 is_exception_frame |-> is_exception_handler_return_site(rip),
                 stack_depth |-> VSub(stack.end, rsp)]),
   ovf |-> VSubUnderflows(stack.end, rsp),
   chk |-> [called |-> TRUE, rbp |-> rbp, rsp |-> rsp, rip |-> rip]]
Refused(rbp, rsp, rip) ==
  [uf |-> Invalid, ovf |-> FALSE,
   chk |-> [called |-> TRUE, rbp |-> rbp, rsp |-> rsp, rip |-> rip]]

\* Mutant: the region check is left out (the first stack is taken).
check_unwound_frame_any_rsp(rbp, rsp, rip, st) ==
  LET hits == {i \in DOMAIN st : contains(st[i], rsp)}
      stack == IF hits = {} THEN st[1] ELSE st[Min(hits)]
  IN IF ~frame_is_last(rbp) /\ ~is_exception_handler_return_site(rip)
        /\ rbp < rsp
       THEN Refused(rbp, rsp, rip)
       ELSE Checked(rbp, rsp, rip, stack)

\* Mutant: the forward-progress check is left out.
check_unwound_frame_no_progress(rbp, rsp, rip, st) ==
  LET hits == {i \in DOMAIN st : contains(st[i], rsp)}
  IN IF hits = {} THEN Refused(rbp, rsp, rip)
     ELSE Checked(rbp, rsp, rip, st[Min(hits)])

\* Mutant: the forward-progress check also refuses rbp = rsp.
check_unwound_frame_strict(rbp, rsp, rip, st) ==
  LET hits == {i \in DOMAIN st : contains(st[i], rsp)}
  IN IF hits = {} THEN Refused(rbp, rsp, rip)
     ELSE IF ~frame_is_last(rbp) /\ ~is_exception_handler_return_site(rip)
             /\ rbp <= rsp
       THEN Refused(rbp, rsp, rip)
       ELSE Checked(rbp, rsp, rip, st[Min(hits)])

\* Mutant: the forward-progress check is waived for the last frame only.
check_unwound_frame_no_waiver(rbp, rsp, rip, st) ==
  LET hits == {i \in DOMAIN st : contains(st[i], rsp)}
  IN IF hits = {} THEN Refused(rbp, rsp, rip)
     ELSE IF ~frame_is_last(rbp) /\ rbp < rsp
       THEN Refused(rbp, rsp, rip)
       ELSE Checked(rbp, rsp, rip, st[Min(hits)])

check_unwound_frame(rbp, rsp, rip, st) ==
  LET hits == {i \in DOMAIN st : contains(st[i], rsp)}
      cand == [called |-> TRUE, rbp |-> rbp, rsp |-> rsp, rip |-> rip]
  IN IF hits = {}
       THEN [uf |-> Invalid, ovf |-> FALSE, chk |-> cand]
       ELSE LET stack == st[Min(hits)]
                is_last == frame_is_last(rbp)
                is_exception_frame == is_exception_handler_return_site(rip)
            IN IF ~is_last /\ ~is_exception_frame /\ rbp < rsp
                 THEN [uf |-> Invalid, ovf |-> FALSE, chk |-> cand]
                 ELSE [uf |-> Valid([rbp |-> rbp, rip |-> rip, rsp |-> rsp,
                                     is_last |-> is_last,
                                     is_exception_frame |-> is_exception_frame,
                                     stack_depth |-> VSub(stack.end, rsp)]),
                       ovf |-> VSubUnderflows(stack.end, rsp),
                       chk |-> cand]

Rejected(kind, base, len) ==
  [uf |-> Invalid, ovf |-> FALSE, chk |-> NoCheck,
   acc |-> [kind |-> kind, base |-> base, len |-> len, read |-> {}]]

\* The two reads of the frame-pointer step and the check of what they give.
ReadPair(rsp0, st, m) ==
  LET rbp1 == Load(m, rsp0)
      rsp1 == VAdd(rsp0, PtrSize)
      rip1 == Load(m, rsp1)
      rsp2 == VAdd(rsp1, PtrSize)
      c == check_unwound_frame(rbp1, rsp2, rip1, st)
  IN [uf |-> c.uf,
      ovf |-> c.ovf \/ VAddOverflows(rsp0, PtrSize)
                    \/ VAddOverflows(rsp1, PtrSize),
      chk |-> c.chk,
      acc |-> [kind |-> "fp", base |-> rsp0, len |-> 2 * PtrSize,
               read |-> {rsp0, rsp1}]]

\* Mutant: only the first of the two words is bounds-checked.
unwind_framepointer_frame_one_word(rbp, st, m) ==
  LET range == checked_new(rbp, PtrSize)
  IN IF ~range.some THEN Rejected("fp", rbp, 2 * PtrSize)
     ELSE IF ~(\E i \in DOMAIN st : contains_region(st[i], range.val))
       THEN Rejected("fp", rbp, 2 * PtrSize)
     ELSE ReadPair(rbp, st, m)

\* Mutant: the range is built unchecked and tested against no region.
unwind_framepointer_frame_unchecked(rbp, st, m) == ReadPair(rbp, st, m)

\* Mutant: rsp is advanced past the saved rbp only, not past the pair.
unwind_framepointer_frame_short_rsp(rbp, st, m) ==
  LET range == checked_new(rbp, 2 * PtrSize)
  IN IF ~range.some THEN Rejected("fp", rbp, 2 * PtrSize)
     ELSE IF ~(\E i \in DOMAIN st : contains_region(st[i], range.val))
       THEN Rejected("fp", rbp, 2 * PtrSize)
     ELSE LET c == check_unwound_frame(Load(m, rbp), VAdd(rbp, PtrSize),
                                       Load(m, VAdd(rbp, PtrSize)), st)
          IN [uf |-> c.uf, ovf |-> c.ovf, chk |-> c.chk,
              acc |-> [kind |-> "fp", base |-> rbp, len |-> 2 * PtrSize,
                       read |-> {rbp, VAdd(rbp, PtrSize)}]]

unwind_framepointer_frame(rbp, st, m) ==
  LET rsp0 == rbp
      range == checked_new(rsp0, 2 * PtrSize)
  IN IF ~range.some THEN Rejected("fp", rsp0, 2 * PtrSize)
     ELSE IF ~(\E i \in DOMAIN st : contains_region(st[i], range.val))
       THEN Rejected("fp", rsp0, 2 * PtrSize)
     ELSE ReadPair(rsp0, st, m)

unwind_exception_frame(rsp, st, m) ==
  LET range == checked_new(rsp, CtxSize)
  IN IF ~range.some THEN Rejected("exc", rsp, CtxSize)
     ELSE IF ~(\E i \in DOMAIN st : contains_region(st[i], range.val))
       THEN Rejected("exc", rsp, CtxSize)
     ELSE LET rbp1 == Load(m, rsp + RbpOff)
              rip1 == Load(m, rsp + RipOff)
              rsp1 == Load(m, rsp + RspOff)
              c == check_unwound_frame(rbp1, rsp1, rip1, st)
          IN [uf |-> c.uf, ovf |-> c.ovf, chk |-> c.chk,
              acc |-> [kind |-> "exc", base |-> rsp, len |-> CtxSize,
                       read |-> {rsp + RbpOff, rsp + RipOff, rsp + RspOff}]]

\* Iterator::next: the new next_frame, the item returned, and the step made.
Ended(r) ==
  [next_frame |-> NoneV, ret |-> r, ovf |-> FALSE, chk |-> NoCheck,
   acc |-> NoAccess, stepped |-> FALSE]
Stepped(s, r) ==
  [next_frame |-> Some(s.uf), ret |-> r, ovf |-> s.ovf, chk |-> s.chk,
   acc |-> s.acc, stepped |-> TRUE]

\* Mutant: an Invalid item is returned but next_frame is not cleared.
next_keeps_invalid(nf, st, m) ==
  IF ~nf.some THEN Ended(NoneV)
  ELSE LET cur == nf.val IN
    IF cur.tag = "Invalid"
      THEN [next_frame |-> nf, ret |-> Some(cur), ovf |-> FALSE,
            chk |-> NoCheck, acc |-> NoAccess, stepped |-> FALSE]
    ELSE IF cur.frame.is_last THEN Ended(Some(cur))
    ELSE IF cur.frame.is_exception_frame
      THEN Stepped(unwind_exception_frame(cur.frame.rsp, st, m), Some(cur))
      ELSE Stepped(unwind_framepointer_frame(cur.frame.rbp, st, m), Some(cur))

\* Mutant: an exception frame is advanced by the frame-pointer step.
next_ignores_exception(nf, st, m) ==
  IF ~nf.some THEN Ended(NoneV)
  ELSE LET cur == nf.val IN
    IF cur.tag = "Invalid" THEN Ended(Some(cur))
    ELSE IF cur.frame.is_last THEN Ended(Some(cur))
    ELSE Stepped(unwind_framepointer_frame(cur.frame.rbp, st, m), Some(cur))

\* Mutant: is_exception_frame is tested before is_last.
next_exception_first(nf, st, m) ==
  IF ~nf.some THEN Ended(NoneV)
  ELSE LET cur == nf.val IN
    IF cur.tag = "Invalid" THEN Ended(Some(cur))
    ELSE IF cur.frame.is_exception_frame
      THEN Stepped(unwind_exception_frame(cur.frame.rsp, st, m), Some(cur))
    ELSE IF cur.frame.is_last THEN Ended(Some(cur))
    ELSE Stepped(unwind_framepointer_frame(cur.frame.rbp, st, m), Some(cur))

next(nf, st, m) ==
  IF ~nf.some THEN Ended(NoneV)
  ELSE LET cur == nf.val IN
    IF cur.tag = "Invalid" THEN Ended(Some(cur))
    ELSE IF cur.frame.is_last THEN Ended(Some(cur))
    ELSE IF cur.frame.is_exception_frame
      THEN Stepped(unwind_exception_frame(cur.frame.rsp, st, m), Some(cur))
      ELSE Stepped(unwind_framepointer_frame(cur.frame.rbp, st, m), Some(cur))

\* StackUnwinder::new
new(rbp, st, m) ==
  LET first_frame == unwind_framepointer_frame(rbp, st, m)
  IN [next_frame |-> Some(first_frame.uf), stacks |-> st,
      ovf |-> first_frame.ovf, chk |-> first_frame.chk, acc |-> first_frame.acc]

\* ------------------------------------------------------------------ memory
NonZero(m) == Cardinality({a \in DOMAIN m : m[a] # 0})
\* The memories that agree with m and also hold the words at A.
Budget(m) == IF NonZero(m) >= MaxCells THEN 0 ELSE MaxCells - NonZero(m)
Extend(m, A) ==
  LET fresh == A \ DOMAIN m
  IN { m @@ g : g \in { h \in [fresh -> vals] :
         Cardinality({a \in fresh : h[a] # 0}) <= Budget(m) } }

Record(ys, r) ==
  IF r.some /\ Len(ys) < MaxYield THEN Append(ys, r.val) ELSE ys

\* ----------------------------------------------------------------------
\*                          the unwinder, called directly
\* ----------------------------------------------------------------------
UnwinderInit ==
  /\ pc = "start"
  /\ stacks \in StackLayouts
  /\ vals \in {MemVals, FewVals}
  /\ next_frame = NoneV
  /\ mem = << >>
  /\ ret = NoneV
  /\ yielded = << >>
  /\ chk = NoCheck
  /\ acc = NoAccess
  /\ panicked = FALSE
  /\ rbp0 = 0

PrintIdle == skip = 0 /\ n = 0 /\ ppc = "idle" /\ log = << >>

NoDiag == [msg |-> "none"]
NoCtx == [vector |-> 0, error_code |-> 0, rip |-> 0, rsp |-> 0]
NoTrap ==
  [vector |-> 0, ip |-> 0, rbp |-> 0, rip |-> 0, rsp |-> 0,
   error_code |-> 0]
TrapIdle ==
  /\ dpc = "idle"
  /\ variant = "ghcb"
  /\ ctx = NoCtx
  /\ cr2 = 0
  /\ diag = NoDiag
  /\ vc_called = "none"
  /\ trap = NoTrap
  /\ kstack = << >>

\* IdtEntry::no_handler() and IdtEntry::entry(target).
no_handler == [present |-> FALSE, target |-> 0]
entry(target) == [present |-> TRUE, target |-> target]
\* A CPU that has not called early_idt_init* yet.
Booting == [st |-> "boot", array |-> "none", i |-> 0]
\* GLOBAL_IDT as the image holds it, on a machine of the given size.
IdtFresh(slots, cpus) ==
  /\ idt = [i \in 0 .. slots - 1 |-> no_handler]
  /\ cpu = [c \in 0 .. cpus - 1 |-> Booting]
\* The specifications in which no trap is taken leave the table and the
\* CPUs out.
DispatchIdle == TrapIdle /\ IdtFresh(0, 0)

\* No call of get_report in progress.
NoBuffer ==
  [request_ok |-> FALSE, vmpl |-> 0, response_ok |-> FALSE,
   response_valid |-> FALSE]
GreqNone ==
  [pc |-> "idle", certs |-> FALSE, buffer |-> NoBuffer, sent |-> << >>,
   driver |-> NoneV, ret |-> NoneV]
GreqIdle == greq = GreqNone

Init == UnwinderInit /\ PrintIdle /\ DispatchIdle /\ GreqIdle

\* StackUnwinder::new(rbp, stacks), rbp and the words read being any.
Construct ==
  \E rbp \in vals :
    \E m \in Extend(mem, new(rbp, stacks, mem).acc.read) :
      LET r == new(rbp, stacks, m) IN
        /\ mem' = m
        /\ rbp0' = rbp
        /\ next_frame' = r.next_frame
        /\ chk' = r.chk
        /\ acc' = r.acc
        /\ panicked' = (panicked \/ r.ovf)
        /\ pc' = "iter"
        /\ UNCHANGED << stacks, vals, ret, yielded >>

\* The outcomes of one call of Iterator::next, one per memory that agrees
\* with the words read so far.
NextOutcomes ==
  { [m |-> m, r |-> next(next_frame, stacks, m)] :
      m \in Extend(mem, next(next_frame, stacks, mem).acc.read) }

Commit(o) ==
  /\ mem' = o.m
  /\ next_frame' = o.r.next_frame
  /\ ret' = o.r.ret
  /\ yielded' = Record(yielded, o.r.ret)
  /\ chk' = o.r.chk
  /\ acc' = o.r.acc
  /\ panicked' = (panicked \/ o.r.ovf)
  /\ UNCHANGED << pc, stacks, vals, rbp0 >>

New ==
  /\ pc = "start"
  /\ Construct
  /\ UNCHANGED << print_vars, dispatch_vars, idt_vars, greq >>

\* One call of Iterator::next on the unwinder.
NextCall ==
  /\ pc = "iter"
  /\ \E o \in NextOutcomes : Commit(o)
  /\ UNCHANGED << print_vars, dispatch_vars, idt_vars, greq >>

Next == New \/ NextCall

Spec == Init /\ [][Next]_vars

\* The caller of an iterator keeps calling next() until it returns None.
\* Memory that holds synthetic (rbp, rip) pairs before the unwinder is
\* constructed: a pair at each address of PairSlots, its saved rbp zero or
\* the address of a pair, its saved rip an ordinary address or a return
\* site.
PairSlots == {4, 6, 20, 28}
PairCells == PairSlots \cup {p + PtrSize : p \in PairSlots}
PairImages ==
  { m \in [PairCells -> PairSlots \cup {0, 3, ReturnSite}] :
      \A p \in PairSlots : /\ m[p] \in PairSlots \cup {0}
                            /\ m[p + PtrSize] \in {3, ReturnSite} }
ChainInit ==
  /\ pc = "start"
  /\ stacks = SeparateStacks
  /\ vals = MemVals
  /\ next_frame = NoneV
  /\ mem \in PairImages
  /\ ret = NoneV
  /\ yielded = << >>
  /\ chk = NoCheck
  /\ acc = NoAccess
  /\ panicked = FALSE
  /\ rbp0 = 0
  /\ PrintIdle /\ DispatchIdle /\ GreqIdle
ChainSpec == ChainInit /\ [][Next]_vars

FairInit == Init /\ vals = FewVals
FairSpec == FairInit /\ [][Next]_vars /\ WF_vars(Next)

\* ----------------------------------------------------------------------
\*                               print_stack
\* ----------------------------------------------------------------------
StartMarker == [text |-> "---BACKTRACE---:", rip |-> 0]
EndMarker == [text |-> "---END---", rip |-> 0]
\* The line logged for an item: "  [{rip}]" or "  Invalid frame".
print_line(frame) ==
  IF frame.tag = "Valid"
    THEN [text |-> "  [rip]", rip |-> frame.frame.rip]
    ELSE [text |-> "  Invalid frame", rip |-> 0]

\* Mutant: one item fewer is discarded.
skip_pending_one_less(k) == k > 1

\* Skip::next discards items while its count is above zero.
skip_pending(k) == k > 0

PrintInit ==
  /\ UnwinderInit /\ vals = MemVals /\ stacks = SeparateStacks
  /\ skip \in 0 .. MaxSkip
  /\ n = 0 /\ ppc = "idle" /\ log = << >>
  /\ DispatchIdle /\ GreqIdle

\* print_stack(skip) up to the head of its loop: the unwinder for this
\* CPU's rbp and stacks, then the start marker.
PrintBegin ==
  /\ ppc = "idle" /\ pc = "start"
  /\ Construct
  /\ log' = Append(log, StartMarker)
  /\ n' = skip
  /\ ppc' = "loop"
  /\ UNCHANGED << skip, dispatch_vars, idt_vars, greq >>

\* A call of next() whose item unwinder.skip(skip) discards.
PrintSkip ==
  /\ ppc = "loop" /\ skip_pending(n) /\ Len(yielded) < MaxYield
  /\ \E o \in NextOutcomes :
       /\ Commit(o)
       /\ IF o.r.ret.some
            THEN n' = n - 1 /\ ppc' = "loop"
            ELSE n' = 0 /\ ppc' = "end"
  /\ UNCHANGED << skip, log, dispatch_vars, idt_vars, greq >>

\* A call of next() whose item reaches the loop body, or ends the loop.
PrintItem ==
  /\ ppc = "loop" /\ ~skip_pending(n) /\ Len(yielded) < MaxYield
  /\ \E o \in NextOutcomes :
       /\ Commit(o)
       /\ IF o.r.ret.some
            THEN log' = Append(log, print_line(o.r.ret.val)) /\ ppc' = "loop"
            ELSE log' = log /\ ppc' = "end"
  /\ UNCHANGED << skip, n, dispatch_vars, idt_vars, greq >>

PrintEnd ==
  /\ ppc = "end"
  /\ log' = Append(log, EndMarker)
  /\ ppc' = "done"
  /\ UNCHANGED << skip, n, unwinder_vars, dispatch_vars, idt_vars,
                  greq >>

PrintNext == PrintBegin \/ PrintSkip \/ PrintItem \/ PrintEnd
PrintSpec == PrintInit /\ [][PrintNext]_vars

\* ----------------------------------------------------------------------
\*                        the stage-2 generic dispatchers
\* ----------------------------------------------------------------------
DF_VECTOR == 8
VC_VECTOR == 29
Panic(d) == [kind |-> "panic", diag |-> d, handler |-> "none"]
Delegate(h) == [kind |-> "call", diag |-> NoDiag, handler |-> h]
DoubleFault(c, cr2v) ==
  [msg |-> "Double-Fault at RIP {} RSP: {} CR2: {}",
   rip |-> c.rip, rsp |-> c.rsp, cr2 |-> cr2v]
Unhandled(c) ==
  [msg |-> "Unhandled exception {} RIP {} error code: {}",
   vector |-> c.vector, rip |-> c.rip, error_code |-> c.error_code]

\* Mutant: the catch-all arm hands the context to the #VC handler instead
\* of panicking.
stage2_generic_idt_handler_delegates_rest(c, cr2v) ==
  IF c.vector = DF_VECTOR THEN Panic(DoubleFault(c, cr2v))
  ELSE Delegate("stage2_handle_vc_exception")

stage2_generic_idt_handler(c, cr2v) ==
  IF c.vector = DF_VECTOR THEN Panic(DoubleFault(c, cr2v))
  ELSE IF c.vector = VC_VECTOR THEN Delegate("stage2_handle_vc_exception")
  ELSE Panic(Unhandled(c))

\* Mutant: the double-fault arm is missing.
stage2_generic_idt_handler_no_ghcb_no_df(c, cr2v) ==
  IF c.vector = VC_VECTOR
    THEN Delegate("stage2_handle_vc_exception_no_ghcb")
    ELSE Panic(Unhandled(c))

stage2_generic_idt_handler_no_ghcb(c, cr2v) ==
  IF c.vector = DF_VECTOR THEN Panic(DoubleFault(c, cr2v))
  ELSE IF c.vector = VC_VECTOR
    THEN Delegate("stage2_handle_vc_exception_no_ghcb")
  ELSE Panic(Unhandled(c))

\* ------------------------------------------------------- Interrupt Table
Arrays == {"no_ghcb", "ghcb"}
\* &stage2_idt_handler_array_no_ghcb / &stage2_idt_handler_array as *const u8
handler_array(a) ==
  IF a = "no_ghcb" THEN stage2_idt_handler_array_no_ghcb
                   ELSE stage2_idt_handler_array

\* Mutant: the stub index is not scaled by the stride.
init_idt_entry_unscaled(handlers, i) == entry(handlers + i)

\* The entry init_idt stores in slot i.
init_idt_entry(handlers, i) == entry(handlers + (StubStride * i))

\* A CPU enters one of the two entry points; init_idt starts at slot 0.
IdtCall(c, a) ==
  /\ cpu[c].st = "boot"
  /\ cpu' = [cpu EXCEPT ![c] = [st |-> "init", array |-> a, i |-> 0]]
  /\ UNCHANGED << idt, unwinder_vars, print_vars, dispatch_vars, greq >>
early_idt_init_no_ghcb(c) == IdtCall(c, "no_ghcb")
early_idt_init(c) == IdtCall(c, "ghcb")

\* One iteration of init_idt's loop over idt.iter_mut().enumerate().
init_idt(c) ==
  /\ cpu[c].st = "init"
  /\ cpu[c].i \in DOMAIN idt
  /\ idt' = [idt EXCEPT ![cpu[c].i] =
               init_idt_entry(handler_array(cpu[c].array), cpu[c].i)]
  /\ cpu' = [cpu EXCEPT ![c].i = @ + 1]
  /\ UNCHANGED << unwinder_vars, print_vars, dispatch_vars, greq >>

\* The loop is over: load_idt(&GLOBAL_IDT), and the entry point returns.
load_idt(c) ==
  /\ cpu[c].st = "init"
  /\ cpu[c].i \notin DOMAIN idt
  /\ cpu' = [cpu EXCEPT ![c].st = "loaded"]
  /\ UNCHANGED << idt, unwinder_vars, print_vars, dispatch_vars, greq >>

\* The boot code of the CPU goes on and unmasks interrupts.
Unmask(c) ==
  /\ cpu[c].st = "loaded"
  /\ cpu' = [cpu EXCEPT ![c].st = "live"]
  /\ UNCHANGED << idt, unwinder_vars, print_vars, dispatch_vars, greq >>

\* The steps above, taken by any CPU.
EarlyIdtInitNoGhcb == \E c \in DOMAIN cpu : early_idt_init_no_ghcb(c)
EarlyIdtInit == \E c \in DOMAIN cpu : early_idt_init(c)
InitIdt == \E c \in DOMAIN cpu : init_idt(c)
LoadIdt == \E c \in DOMAIN cpu : load_idt(c)
UnmaskInterrupts == \E c \in DOMAIN cpu : Unmask(c)

\* ------------------------------------------------------- trap trampolines
\* The values a trap's registers, error code and CR2 are drawn from.
TrapWords == {0, 5}

RECURSIVE Shr(_, _)
Shr(x, k) == IF k = 0 THEN x ELSE Shr(x \div 2, k - 1)
\* (0x20027d00 >> i) & 1
error_code_bit(i) == Shr(ERRCODE_MASK, i) % 2
\* The CPU pushes an error code for the vectors of the mask.
hw_error_code(v) == error_code_bit(v) = 1

\* pushq: the stack grows towards lower addresses.
Push(stk, w) == << w >> \o stk
RECURSIVE PushAll(_, _)
PushAll(stk, ws) ==
  IF ws = << >> THEN stk ELSE PushAll(Push(stk, Head(ws)), Tail(ws))

\* What the CPU pushes on delivery: ss, rsp, rflags, cs, rip, and the error
\* code of the vectors that have one.  Words that stand for ss, rflags, cs
\* and the registers other than rbp are 9.
hw_frame(t) ==
  LET frame == PushAll(<< >>, << 9, t.rsp, 9, 9, t.rip >>)
  IN IF hw_error_code(t.vector) THEN Push(frame, t.error_code) ELSE frame

\* Mutant: no stub pushes the placeholder.
stub_no_placeholder(i, stk) == Push(stk, i)
\* Mutant: every stub pushes the placeholder.
stub_always_placeholder(i, stk) == Push(Push(stk, 0), i)

\* Stub i of either array: pushq $0 unless bit i of the mask is set, then
\* pushq $i.
stub(i, stk) ==
  Push(IF error_code_bit(i) = 0 THEN Push(stk, 0) ELSE stk, i)

\* Mutant: the stubs of both arrays jump to push_regs_stage2.
stub_jmp_one_prologue(a) == "push_regs_stage2"

\* The prologue the stubs of array a jump to.
stub_jmp(a) ==
  IF a = "no_ghcb" THEN "push_regs_no_ghcb" ELSE "push_regs_stage2"

GPRs ==
  << "rax", "rbx", "rcx", "rdx", "rsi", "rdi", "rbp", "r8", "r9", "r10",
     "r11", "r12", "r13", "r14", "r15" >>
\* push_regs_no_ghcb / push_regs_stage2: the fifteen pushq.
push_regs(stk, t) ==
  PushAll(stk, [k \in DOMAIN GPRs |-> IF GPRs[k] = "rbp" THEN t.rbp ELSE 9])
\* The dispatcher each prologue calls.
prologue_call(p) == IF p = "push_regs_no_ghcb" THEN "no_ghcb" ELSE "ghcb"

\* movq %rsp, %rdi: the words at the stack pointer read as an
\* X86ExceptionContext.
ContextAt(stk) ==
  [vector |-> stk[VectorOff + 1], error_code |-> stk[ErrorCodeOff + 1],
   rip |-> stk[RipOff + 1], rsp |-> stk[RspOff + 1]]

DispatchInit ==
  /\ UnwinderInit /\ vals = FewVals /\ stacks = SeparateStacks
  /\ PrintIdle /\ TrapIdle /\ IdtFresh(IDT_ENTRIES, 1) /\ GreqIdle

\* A CPU whose IDT is loaded takes an exception: the hardware pushes the
\* trap frame and jumps to the target of the vector's IDT entry.
Trap ==
  /\ dpc = "idle"
  /\ \E c \in DOMAIN cpu, v \in Vectors \cap DOMAIN idt :
       /\ cpu[c].st \in {"loaded", "live"}
       /\ idt[v].present
       /\ \E rbp \in TrapWords, rip \in TrapWords, rsp \in TrapWords,
             e \in IF hw_error_code(v) THEN TrapWords ELSE {0} :
            LET t == [vector |-> v, ip |-> idt[v].target, rbp |-> rbp,
                      rip |-> rip, rsp |-> rsp, error_code |-> e]
            IN trap' = t /\ kstack' = hw_frame(t)
  /\ cr2' \in TrapWords
  /\ diag' = NoDiag
  /\ vc_called' = "none"
  /\ dpc' = "stub"
  /\ UNCHANGED << variant, ctx, unwinder_vars, print_vars, idt_vars, greq >>

\* The stub at the target runs and jumps to its array's prologue.
Stub ==
  /\ dpc = "stub"
  /\ \E a \in Arrays, i \in Vectors :
       /\ trap.ip = handler_array(a) + (StubStride * i)
       /\ kstack' = stub(i, kstack)
       /\ dpc' = stub_jmp(a)
  /\ UNCHANGED << variant, ctx, cr2, diag, vc_called, trap, unwinder_vars,
                  print_vars, idt_vars, greq >>

\* The shared prologue saves the registers and calls its dispatcher with
\* the stack pointer as the context.
PushRegs ==
  /\ dpc \in {"push_regs_no_ghcb", "push_regs_stage2"}
  /\ kstack' = push_regs(kstack, trap)
  /\ ctx' = ContextAt(kstack')
  /\ variant' = prologue_call(dpc)
  /\ dpc' = "dispatch"
  /\ UNCHANGED << cr2, diag, vc_called, trap, unwinder_vars, print_vars,
                  idt_vars, greq >>

\* The dispatcher's match on ctx.vector.
Dispatch ==
  /\ dpc = "dispatch"
  /\ LET r == IF variant = "ghcb"
                THEN stage2_generic_idt_handler(ctx, cr2)
                ELSE stage2_generic_idt_handler_no_ghcb(ctx, cr2)
     IN /\ diag' = r.diag
        /\ vc_called' = r.handler
        /\ dpc' = IF r.kind = "panic" THEN "panic" ELSE "vc"
  /\ UNCHANGED << variant, ctx, cr2, trap, kstack, unwinder_vars, print_vars,
                  idt_vars, greq >>

\* The #VC handler returns, having possibly changed the context.
VcReturns ==
  /\ dpc = "vc"
  /\ \E rip \in TrapWords :
       /\ ctx' = [ctx EXCEPT !.rip = rip]
       /\ kstack' = [kstack EXCEPT ![RipOff + 1] = rip]
  /\ dpc' = "returned"
  /\ UNCHANGED << variant, cr2, diag, vc_called, trap, unwinder_vars,
                  print_vars, idt_vars, greq >>

\* The #VC handler terminates fatally.
VcFails ==
  /\ dpc = "vc"
  /\ diag' = [msg |-> "#VC handler failed"]
  /\ dpc' = "panic"
  /\ UNCHANGED << variant, ctx, cr2, vc_called, trap, kstack, unwinder_vars,
                  print_vars, idt_vars, greq >>

\* jmp generic_idt_handler_return: the trap returns to the interrupted code.
TrapReturn ==
  /\ dpc = "returned"
  /\ dpc' = "idle"
  /\ kstack' = << >>
  /\ UNCHANGED << variant, ctx, cr2, diag, vc_called, trap, unwinder_vars,
                  print_vars, idt_vars, greq >>

DispatchNext ==
  \/ EarlyIdtInitNoGhcb \/ EarlyIdtInit \/ InitIdt \/ LoadIdt
  \/ UnmaskInterrupts
  \/ Trap \/ Stub \/ PushRegs \/ Dispatch
  \/ VcReturns \/ VcFails \/ TrapReturn
DispatchSpec == DispatchInit /\ [][DispatchNext]_vars

\* ------------------------------------------------- CPUs racing to the IDT
\* Number of CPUs that boot, and of slots of the table they share.
NumCpus == 2
RaceEntries == 3
RaceInit ==
  /\ UnwinderInit /\ vals = FewVals /\ stacks = SeparateStacks
  /\ PrintIdle /\ TrapIdle /\ IdtFresh(RaceEntries, NumCpus) /\ GreqIdle
RaceNext ==
  \/ EarlyIdtInitNoGhcb \/ EarlyIdtInit \/ InitIdt \/ LoadIdt
  \/ UnmaskInterrupts
RaceSpec == RaceInit /\ [][RaceNext]_vars

\* ----------------------------------------------------------------------
\*                      get_regular_report / get_extended_report
\* ----------------------------------------------------------------------
\* size_of::<SnpReportResponse>(), in units of the model.
REPORT_RESPONSE_SIZE == 3
Ok(x) == [ok |-> TRUE, val |-> x]
Err(e) == [ok |-> FALSE, err |-> e]
invalid_parameter == [kind |-> "InvalidParameter", from |-> "get_report"]
invalid_request == [kind |-> "InvalidRequest", from |-> "get_report"]
\* The errors the collaborators return: parsing, the driver, validation.
ParseError == [kind |-> "InvalidParameter", from |-> "try_from_as_ref"]
ValidateError == [kind |-> "InvalidFormat", from |-> "validate"]
DriverErrors ==
  { [kind |-> k, from |-> "driver"] :
      k \in {"InvalidParameter", "InvalidFormat", "FatalError"} }
\* What a call of the driver returns: the length of the response, or an
\* error.
DriverResults ==
  { Ok(len) : len \in 0 .. REPORT_RESPONSE_SIZE + 1 }
    \cup { Err(e) : e \in DriverErrors }

\* get_regular_report(buffer) and get_extended_report(buffer, certs) call
\* get_report with certs None and Some.
GetReportCall(certs) ==
  /\ greq.pc = "idle"
  /\ \E ok \in BOOLEAN, vmpl \in 0 .. 3 :
       greq' = [GreqNone EXCEPT !.pc = "request", !.certs = certs,
                                !.buffer.request_ok = ok,
                                !.buffer.vmpl = vmpl]
  /\ UNCHANGED << unwinder_vars, print_vars, dispatch_vars, idt_vars >>
get_regular_report == GetReportCall(FALSE)
get_extended_report == GetReportCall(TRUE)

\* The request is parsed from the buffer and must be a VMPL0 request.
get_report_request(g) ==
  IF ~g.buffer.request_ok
    THEN [g EXCEPT !.pc = "done", !.ret = Some(Err(ParseError))]
  ELSE IF g.buffer.vmpl # 0
    THEN [g EXCEPT !.pc = "done", !.ret = Some(Err(invalid_parameter))]
  ELSE [g EXCEPT !.pc = "send"]

\* The driver call get_report makes, by its certs argument.
request_kind(g) == IF g.certs THEN "extended" ELSE "regular"

\* Mutant: a failed request is sent a second time.
get_report_send_retries(g, d) ==
  IF d.ok
    THEN [g EXCEPT !.sent = Append(@, request_kind(g)),
                   !.driver = Some(d), !.pc = "response"]
    ELSE [g EXCEPT !.sent = @ \o << request_kind(g), request_kind(g) >>,
                   !.driver = Some(d), !.pc = "done", !.ret = Some(d)]

\* send_regular_guest_request(..)? / send_extended_guest_request(..)?,
\* the driver returning d.
get_report_send(g, d) ==
  IF d.ok
    THEN [g EXCEPT !.sent = Append(@, request_kind(g)),
                   !.driver = Some(d), !.pc = "response"]
    ELSE [g EXCEPT !.sent = Append(@, request_kind(g)),
                   !.driver = Some(d), !.pc = "done", !.ret = Some(d)]

\* The length check, the parse of the response and its validation.
get_report_response(g) ==
  LET response_len == g.driver.val.val
  IN IF REPORT_RESPONSE_SIZE > response_len
       THEN [g EXCEPT !.pc = "done", !.ret = Some(Err(invalid_request))]
     ELSE IF ~g.buffer.response_ok
       THEN [g EXCEPT !.pc = "done", !.ret = Some(Err(ParseError))]
     ELSE IF ~g.buffer.response_valid
       THEN [g EXCEPT !.pc = "done", !.ret = Some(Err(ValidateError))]
     ELSE [g EXCEPT !.pc = "done", !.ret = Some(Ok(response_len))]

ReportRequest ==
  /\ greq.pc = "request"
  /\ greq' = get_report_request(greq)
  /\ UNCHANGED << unwinder_vars, print_vars, dispatch_vars, idt_vars >>

\* The driver is called; it leaves its response in the buffer.
ReportSend ==
  /\ greq.pc = "send"
  /\ \E d \in DriverResults, rok \in BOOLEAN, rvalid \in BOOLEAN :
       greq' = get_report_send(
                 [greq EXCEPT !.buffer.response_ok = d.ok /\ rok,
                              !.buffer.response_valid = d.ok /\ rok /\ rvalid],
                 d)
  /\ UNCHANGED << unwinder_vars, print_vars, dispatch_vars, idt_vars >>

ReportResponse ==
  /\ greq.pc = "response"
  /\ greq' = get_report_response(greq)
  /\ UNCHANGED << unwinder_vars, print_vars, dispatch_vars, idt_vars >>

\* The caller has the result and may call again.
ReportReturn ==
  /\ greq.pc = "done"
  /\ greq' = [greq EXCEPT !.pc = "idle"]
  /\ UNCHANGED << unwinder_vars, print_vars, dispatch_vars, idt_vars >>

ReportInit ==
  /\ UnwinderInit /\ vals = FewVals /\ stacks = SeparateStacks
  /\ PrintIdle /\ DispatchIdle /\ GreqIdle
ReportNext ==
  \/ get_regular_report \/ get_extended_report
  \/ ReportRequest \/ ReportSend \/ ReportResponse \/ ReportReturn
ReportSpec == ReportInit /\ [][ReportNext]_vars

\* ----------------------------------------------------------------------
\*                                 properties
\* ----------------------------------------------------------------------
InSomeStack(a) ==
  \E i \in DOMAIN stacks : stacks[i].start <= a /\ a < stacks[i].end
\* [base, base + len) does not wrap and lies inside a single region.
Fits(base, len) ==
  /\ base + len <= AddrMax
  /\ \E i \in DOMAIN stacks :
       stacks[i].start <= base /\ base + len <= stacks[i].end
Exhausted == pc = "iter" /\ ~next_frame.some
IsValid(x) == x.tag = "Valid"

\* C1: whatever the regions, the starting rbp and the memory, the sequence
\* is finite: when next() keeps being called, next_frame becomes None.
C1_SequenceIsFinite == <>Exhausted

Pending == IF next_frame.some THEN {next_frame.val} ELSE {}
Produced == {yielded[i] : i \in 1 .. Len(yielded)} \cup Pending

\* C2: every frame classified Valid, yielded or about to be, has its rsp
\* inside one of the three regions, and a candidate whose rsp is in none
\* of them was classified Invalid.
C2_ValidRspInRegion ==
  /\ \A x \in Produced : IsValid(x) => InSomeStack(x.frame.rsp)
  /\ (chk.called /\ ~InSomeStack(chk.rsp)) => next_frame = Some(Invalid)

\* C2 witness: a Valid frame was yielded and the candidate after it, whose
\* rsp is in no region, was checked.
C2_Witness ==
  /\ Len(yielded) > 0 /\ IsValid(yielded[1])
  /\ chk.called /\ ~InSomeStack(chk.rsp) /\ chk.rbp >= chk.rsp

\* The length of the range a step of the given kind must have checked.
StepLen(kind) == IF kind = "fp" THEN 2 * PtrSize ELSE CtxSize

\* C3: a step reads memory only inside the range it bounds-checked, and
\* only if that range does not wrap and lies inside a single region;
\* otherwise it reads nothing and its result is Invalid.  So every word
\* ever read lies in a region.
C3_ReadsAreBoundsChecked ==
  /\ acc.kind # "none" =>
       /\ acc.read # {} =>
            /\ Fits(acc.base, StepLen(acc.kind))
            /\ \A a \in acc.read :
                 acc.base <= a /\ a < acc.base + StepLen(acc.kind)
       /\ ~Fits(acc.base, StepLen(acc.kind)) =>
            acc.read = {} /\ next_frame = Some(Invalid)
  /\ \A a \in DOMAIN mem : InSomeStack(a)

\* C3 witness: a frame-pointer step whose two words straddle two adjacent
\* regions read nothing.
C3_Witness ==
  /\ acc.kind = "fp" /\ acc.read = {}
  /\ InSomeStack(acc.base) /\ InSomeStack(acc.base + PtrSize)
  /\ next_frame = Some(Invalid)

\* C3 witness for the exception step: a context overflowing the address
\* space is not read.
C3_WitnessException ==
  /\ acc.kind = "exc" /\ acc.read = {} /\ acc.base + CtxSize > AddrMax

HasInvalid == \E i \in 1 .. Len(yielded) : yielded[i] = Invalid

\* C4: Invalid is yielded at most once and as the last item; once it has
\* been yielded next_frame is None, and every later call returns None,
\* reads no memory and yields nothing.
C4_InvalidIsTerminal ==
  /\ [](\A i \in 1 .. Len(yielded) :
          yielded[i] = Invalid => (i = Len(yielded) /\ ~next_frame.some))
  /\ [][HasInvalid =>
          (~ret'.some /\ acc' = NoAccess /\ mem' = mem
           /\ yielded' = yielded /\ ~next_frame'.some)]_vars

\* C4 witness: Invalid was yielded after a Valid frame and next() was
\* called again.
C4_Witness ==
  /\ Len(yielded) >= 2 /\ yielded[Len(yielded)] = Invalid /\ ~ret.some

\* C6: a candidate that is neither last nor an exception frame and has
\* rbp < rsp is classified Invalid, also when its rsp is in a region.
C6_DownwardFrameInvalid ==
  (chk.called /\ chk.rbp # 0 /\ ~is_exception_handler_return_site(chk.rip)
     /\ chk.rbp < chk.rsp)
  => next_frame = Some(Invalid)

\* C6 witness: such a candidate, with rsp and rbp both inside a region.
C6_Witness ==
  /\ chk.called /\ chk.rbp # 0 /\ chk.rip # ReturnSite
  /\ chk.rbp < chk.rsp /\ InSomeStack(chk.rsp) /\ InSomeStack(chk.rbp)

\* C8: no arithmetic of the unwinder wraps, and construction and every
\* call of next() end with next_frame and the returned item being None,
\* Invalid or a Valid frame.
IsItem(o) ==
  ~o.some \/ o.val = Invalid
  \/ (IsValid(o.val) /\ o.val.frame.rsp \in Addr /\ o.val.frame.rbp \in Addr
      /\ o.val.frame.stack_depth \in 1 .. AddrMax)
C8_NeverFails == ~panicked /\ IsItem(next_frame) /\ IsItem(ret)

\* C8 witness: the depth of a frame was computed, and the step after it
\* refused an rbp for which rbp + 2 words overflows.
C8_Witness ==
  /\ Len(yielded) > 0 /\ IsValid(yielded[1])
  /\ acc.kind = "fp" /\ acc.base + 2 * PtrSize > AddrMax
  /\ next_frame = Some(Invalid)

\* ------------------------------------------------------ frame-pointer chains
\* The saved (rbp, rip) pair at p has been read and lies inside region r.
PairIn(p, r) ==
  /\ p \in DOMAIN mem /\ (p + PtrSize) \in DOMAIN mem
  /\ r.start <= p /\ p + 2 * PtrSize <= r.end

\* From p on, memory holds a chain of pairs inside r, each saved rbp the
\* address of the next pair, the last saved rbp zero.  With below, no pair
\* ends at the very end of r; with upward, each pair lies wholly above the
\* pair before it; with plain, no return address but the last is an
\* exception-handler return site.
RECURSIVE ChainWith(_, _, _, _, _, _)
ChainWith(p, r, fuel, below, upward, plain) ==
  /\ PairIn(p, r)
  /\ below => p + 2 * PtrSize < r.end
  /\ \/ mem[p] = 0
     \/ /\ fuel > 0
        /\ upward => mem[p] >= p + 2 * PtrSize
        /\ plain => ~is_exception_handler_return_site(mem[p + PtrSize])
        /\ ChainWith(mem[p], r, fuel - 1, below, upward, plain)

Chain(p, r, fuel) == ChainWith(p, r, fuel, FALSE, FALSE, FALSE)
UpwardChain(p, r, fuel) == ChainWith(p, r, fuel, TRUE, TRUE, TRUE)

\* One frame per pair of the chain at p, in chain order: the saved rbp, the
\* saved rip, and the address just past the pair as rsp.
RECURSIVE ChainFrames(_, _)
ChainFrames(p, fuel) ==
  LET f == [rbp |-> mem[p], rip |-> mem[p + PtrSize],
            rsp |-> p + 2 * PtrSize, is_last |-> (mem[p] = 0)]
  IN IF mem[p] = 0 \/ fuel = 0 THEN << f >>
     ELSE << f >> \o ChainFrames(mem[p], fuel - 1)

\* What was yielded, as far as the chain's frames go.
YieldedFrames ==
  [i \in 1 .. Len(yielded) |->
     IF IsValid(yielded[i])
       THEN [rbp |-> yielded[i].frame.rbp, rip |-> yielded[i].frame.rip,
             rsp |-> yielded[i].frame.rsp,
             is_last |-> yielded[i].frame.is_last]
       ELSE [rbp |-> 0, rip |-> 0, rsp |-> 0, is_last |-> FALSE]]

ChainFuel == MaxCells + 1
AllValid == \A x \in Produced : IsValid(x)

\* C5 as claimed: for a chain of pairs inside a region that ends with a
\* zero rbp, the exhausted unwinder has yielded exactly the chain's frames,
\* all Valid.
C5_ChainYieldsItsFrames ==
  \A i \in DOMAIN stacks :
    (Exhausted /\ Chain(rbp0, stacks[i], ChainFuel))
    => (AllValid /\ YieldedFrames = ChainFrames(rbp0, ChainFuel))

\* C5 amended: the same for a chain whose pairs go upward without
\* overlapping, end below the end of the region, and hold no
\* exception-handler return site before the last pair.  While the unwinder
\* runs no Invalid item is produced.
C5_UpwardChainYieldsItsFrames ==
  \A i \in DOMAIN stacks :
    UpwardChain(rbp0, stacks[i], ChainFuel)
    => /\ pc = "iter" => AllValid
       /\ Exhausted => YieldedFrames = ChainFrames(rbp0, ChainFuel)

\* Each of the three conditions of the amended C5 is needed: with any one
\* of them left out the statement is violated.
YieldsItsFrames(below, upward, plain) ==
  \A i \in DOMAIN stacks :
    ChainWith(rbp0, stacks[i], ChainFuel, below, upward, plain)
    => /\ pc = "iter" => AllValid
       /\ Exhausted => YieldedFrames = ChainFrames(rbp0, ChainFuel)
C5_WithoutBelowEnd == YieldsItsFrames(FALSE, TRUE, TRUE)
C5_WithoutUpward == YieldsItsFrames(TRUE, FALSE, TRUE)
C5_WithoutPlainRip == YieldsItsFrames(TRUE, TRUE, FALSE)

\* C5 witness: a chain of three pairs was unwound to its end.
C5_Witness ==
  /\ Exhausted /\ Len(yielded) = 3
  /\ \E i \in DOMAIN stacks : UpwardChain(rbp0, stacks[i], ChainFuel)
  /\ yielded[3].frame.is_last

\* ------------------------------------------------------- exception frames
\* The frame next() returned last is an exception frame.
AfterExceptionFrame ==
  ret.some /\ IsValid(ret.val) /\ ret.val.frame.is_exception_frame
CtxRbp == Load(mem, ret.val.frame.rsp + RbpOff)
CtxRip == Load(mem, ret.val.frame.rsp + RipOff)
CtxRsp == Load(mem, ret.val.frame.rsp + RspOff)
NextCarriesCtx ==
  /\ next_frame.some /\ IsValid(next_frame.val)
  /\ next_frame.val.frame.rbp = CtxRbp
  /\ next_frame.val.frame.rip = CtxRip
  /\ next_frame.val.frame.rsp = CtxRsp

\* C7 as claimed: after an exception frame was yielded the next item is
\* the frame carrying the rbp, rip and rsp of the Exception Context at the
\* yielded frame's rsp.
C7_ContextSurfacedVerbatim == AfterExceptionFrame => NextCarriesCtx

\* C7 amended: after an exception frame that is not last was yielded, and
\* the whole Exception Context at its rsp lies in one region, the next
\* item is decided by the context's fields alone: the Valid frame carrying
\* exactly its rbp, rip and rsp when that rsp is in a region and the
\* candidate is last, an exception frame or has rbp >= rsp, and Invalid
\* otherwise.  A context that does not lie in one region gives Invalid.
C7_ContextDecidesNextItem ==
  (AfterExceptionFrame /\ ~ret.val.frame.is_last) =>
    IF Fits(ret.val.frame.rsp, CtxSize)
         /\ InSomeStack(CtxRsp)
         /\ (CtxRbp = 0 \/ is_exception_handler_return_site(CtxRip)
             \/ CtxRbp >= CtxRsp)
      THEN NextCarriesCtx
      ELSE next_frame = Some(Invalid)

\* Each condition of the amended C7 is needed: the statement is violated
\* when only the last frame is excepted, and when in addition only the
\* context is required to lie in a region.
C7_SurfacedUnlessLast ==
  (AfterExceptionFrame /\ ~ret.val.frame.is_last) => NextCarriesCtx
C7_SurfacedWhenContextFits ==
  (AfterExceptionFrame /\ ~ret.val.frame.is_last
     /\ Fits(ret.val.frame.rsp, CtxSize)) => NextCarriesCtx

\* C7 witness: the context's frame was surfaced, and it is not the frame
\* whose rsp lies just past the pair at the yielded frame's rbp.
C7_Witness ==
  /\ AfterExceptionFrame /\ ~ret.val.frame.is_last
  /\ NextCarriesCtx /\ CtxRbp # 0
  /\ Fits(ret.val.frame.rbp, 2 * PtrSize)
  /\ next_frame.val.frame.rsp # ret.val.frame.rbp + 2 * PtrSize

\* ------------------------------------------------------------- print_stack
Drop(seq, k) ==
  IF k >= Len(seq) THEN << >> ELSE SubSeq(seq, k + 1, Len(seq))
LineOf(x) ==
  IF IsValid(x) THEN [text |-> "  [rip]", rip |-> x.frame.rip]
  ELSE [text |-> "  Invalid frame", rip |-> 0]
LinesOf(seq) == [i \in 1 .. Len(seq) |-> LineOf(seq[i])]

\* C9: print_stack(skip) logs the start marker, then in order the line of
\* every item the unwinder yields except the first skip items, and, once
\* the unwinder is exhausted, the end marker; nothing else.
C9_PrintSkipsFirstItems ==
  /\ ppc = "idle" => log = << >>
  /\ ppc \in {"loop", "end"} =>
       log = << StartMarker >> \o LinesOf(Drop(yielded, skip))
  /\ ppc \in {"end", "done"} => Exhausted
  /\ ppc = "done" =>
       log = << StartMarker >> \o LinesOf(Drop(yielded, skip))
               \o << EndMarker >>

\* C9 witness: a sequence of a Valid frame, a second item and Invalid was
\* printed with skip = 1.
C9_Witness ==
  /\ ppc = "done" /\ skip = 1 /\ Len(yielded) = 3
  /\ IsValid(yielded[2]) /\ yielded[3] = Invalid /\ Len(log) = 4

\* C9 witness: skip is larger than the sequence is long.
C9_WitnessSkipAll ==
  /\ ppc = "done" /\ skip > Len(yielded)
  /\ log = << StartMarker, EndMarker >>

\* ------------------------------------------------------------- dispatchers
Dispatched == dpc \in {"vc", "returned", "panic"}

\* C10: a context with the double-fault vector, dispatched by either
\* variant, ends in the panic whose message carries the trap frame's rip
\* and rsp and CR2; no #VC handler is invoked and the dispatcher does not
\* return.
C10_DoubleFaultIsFatal ==
  (Dispatched /\ ctx.vector = DF_VECTOR) =>
    /\ dpc = "panic"
    /\ diag = [msg |-> "Double-Fault at RIP {} RSP: {} CR2: {}",
               rip |-> ctx.rip, rsp |-> ctx.rsp, cr2 |-> cr2]
    /\ vc_called = "none"

\* C10 witness: a double fault taken through the no-GHCB stubs, with rip,
\* rsp and CR2 all different from their idle values.
C10_Witness ==
  /\ dpc = "panic" /\ ctx.vector = DF_VECTOR /\ variant = "no_ghcb"
  /\ ctx.rip = 5 /\ ctx.rsp = 0 /\ cr2 = 5

\* C10 witness for the dispatcher that may use the GHCB.
C10_WitnessGhcb ==
  /\ dpc = "panic" /\ ctx.vector = DF_VECTOR /\ variant = "ghcb"

\* C11: for every vector but the #VC vector the dispatcher ends in a panic
\* and calls no handler; the dispatcher returns to the trampoline, and the
\* trap returns, only for the #VC vector and only after the #VC handler it
\* delegated to has returned.
C11_OnlyVcReturns ==
  /\ [](/\ (Dispatched /\ ctx.vector # VC_VECTOR)
             => (dpc = "panic" /\ vc_called = "none")
        /\ dpc = "returned"
             => (ctx.vector = VC_VECTOR /\ vc_called # "none"))
  /\ [][(dpc # "idle" /\ dpc' = "idle")
          => (dpc = "returned" /\ ctx.vector = VC_VECTOR)]_vars

\* C11 witness: a vector that is neither #DF nor #VC ended in the
\* unhandled-exception panic.
C11_Witness ==
  /\ dpc = "panic" /\ ctx.vector \notin {DF_VECTOR, VC_VECTOR}
  /\ diag = Unhandled(ctx) /\ vc_called = "none"

\* C11 witness for the one returning path: #VC, its handler returned.
C11_WitnessVcReturned ==
  /\ dpc = "returned" /\ ctx.vector = VC_VECTOR
  /\ vc_called = "stage2_handle_vc_exception"

\* ---------------------------------------------------------- interrupt table
Loaded(c) == cpu[c].st \in {"loaded", "live"}
\* The array whose address the entry point called by CPU c passes on.
ArrayBase(c) ==
  IF cpu[c].array = "no_ghcb" THEN stage2_idt_handler_array_no_ghcb
  ELSE stage2_idt_handler_array

\* C12: once early_idt_init or early_idt_init_no_ghcb has returned, the
\* table has one slot per vector (32) and slot i holds a present entry whose
\* target is the called entry point's stub array + 32 * i; the load comes
\* after the last write: from the load on no slot changes.
C12_AllSlotsThenLoad ==
  /\ [](\A c \in DOMAIN cpu :
          Loaded(c) =>
            /\ DOMAIN idt = 0 .. 31
            /\ \A i \in DOMAIN idt :
                 idt[i] = [present |-> TRUE, target |-> ArrayBase(c) + 32 * i])
  /\ [][(\E c \in DOMAIN cpu : Loaded(c)) => idt' = idt]_vars

\* C12 witness: early_idt_init_no_ghcb has returned, the last slot leading
\* to the last stub of its array.
C12_Witness ==
  /\ cpu[0].st = "loaded" /\ cpu[0].array = "no_ghcb"
  /\ idt[31] = [present |-> TRUE,
                target |-> stage2_idt_handler_array_no_ghcb + 992]

\* C12 witness for early_idt_init.
C12_WitnessGhcb ==
  /\ cpu[0].st = "loaded" /\ cpu[0].array = "ghcb"
  /\ idt[1] = [present |-> TRUE, target |-> stage2_idt_handler_array + 32]

\* ------------------------------------------------------------- trampolines
\* The bits set in 0x20027d00.
MaskVectors == {8, 10, 11, 12, 13, 14, 17, 29}
\* The words on the stack when the stub has run and the prologue has not.
AfterStub == dpc \in {"push_regs_no_ghcb", "push_regs_stage2"}

\* C13: for a vector whose bit of the mask is unset the stub pushes a zero
\* placeholder below the hardware frame and the context handed to the
\* dispatcher has error_code 0; for a vector whose bit is set the stub
\* pushes the vector number only and error_code is the value the hardware
\* pushed.
C13_ErrorCodeSlot ==
  /\ AfterStub =>
       IF trap.vector \in MaskVectors
         THEN kstack = << trap.vector >> \o hw_frame(trap)
         ELSE kstack = << trap.vector, 0 >> \o hw_frame(trap)
  /\ dpc = "dispatch" =>
       IF trap.vector \in MaskVectors
         THEN ctx.error_code = trap.error_code
         ELSE ctx.error_code = 0

\* C13 witness: a vector without error code, interrupted at a nonzero rip,
\* reached the dispatcher with error_code 0.
C13_Witness ==
  /\ dpc = "dispatch" /\ trap.vector = 3 /\ trap.rip = 5
  /\ ctx.error_code = 0

\* C13 witness: a page fault reached the dispatcher with the hardware's
\* nonzero error code.
C13_WitnessHardware ==
  /\ dpc = "dispatch" /\ trap.vector = 14 /\ trap.error_code = 5
  /\ ctx.error_code = 5

\* C20: whatever the vector and the stub array, the context handed to the
\* dispatcher holds the vector number in its vector field, is 22 words
\* long with the hardware trap frame (rip, cs, rflags, rsp, ss) 17 words
\* above its base, and holds the interrupted rbp, rip and rsp at the
\* offsets the unwinder reads.
C20_ContextShape ==
  dpc = "dispatch" =>
    /\ ctx.vector = trap.vector
    /\ kstack[16] = trap.vector
    /\ Len(kstack) = 22
    /\ SubSeq(kstack, 18, 22) = << trap.rip, 9, 9, trap.rsp, 9 >>
    /\ kstack[RbpOff + 1] = trap.rbp
    /\ kstack[RipOff + 1] = trap.rip
    /\ kstack[RspOff + 1] = trap.rsp
    /\ Len(kstack) = CtxSize

\* C20 witness: a general-protection fault through the normal array.
C20_Witness ==
  /\ dpc = "dispatch" /\ variant = "ghcb" /\ trap.vector = 13
  /\ trap.rbp = 5 /\ trap.rip = 0 /\ trap.rsp = 5 /\ trap.error_code = 5

\* C20 witness: a vector without error code through the no-GHCB array.
C20_WitnessPlaceholder ==
  /\ dpc = "dispatch" /\ variant = "no_ghcb" /\ trap.vector = 31
  /\ trap.rbp = 5 /\ trap.rip = 5 /\ trap.rsp = 0

\* ------------------------------------------------------ CPUs and the table
\* CPU c is inside init_idt.
Writing(c) == cpu[c].st = "init"
\* A step of init_idt stores into a slot of the table.
TableWrite == \E c \in DOMAIN cpu : Writing(c) /\ cpu'[c].i = cpu[c].i + 1

\* C14: however the CPUs' calls of the entry points interleave, no two
\* CPUs are inside init_idt at the same time, and no slot of the table is
\* stored into once some CPU has loaded the table and unmasked interrupts.
C14_TableWrittenBeforeAnyUnmask ==
  /\ [](Cardinality({c \in DOMAIN cpu : Writing(c)}) <= 1)
  /\ [][TableWrite => ~\E c \in DOMAIN cpu : cpu[c].st = "live"]_vars

\* The two halves of C14, each refuted on its own.
C14_NoTwoWriters == Cardinality({c \in DOMAIN cpu : Writing(c)}) <= 1
C14_NoWriteAfterUnmask ==
  [][TableWrite => ~\E c \in DOMAIN cpu : cpu[c].st = "live"]_vars

\* ------------------------------------------------------ the two dispatchers
\* The #VC handler of each dispatcher.
VcHandler(v) ==
  IF v = "ghcb" THEN "stage2_handle_vc_exception"
  ELSE "stage2_handle_vc_exception_no_ghcb"
Outcome(r) == [kind |-> r.kind, diag |-> r.diag]

\* C17: on the context a trap built, the two dispatchers either panic with
\* the same message or both delegate, each to its own #VC handler; the
\* no-GHCB dispatcher never calls the handler that uses the GHCB; and a
\* trap on a CPU whose table was set up by early_idt_init_no_ghcb runs the
\* no-GHCB prologue and dispatcher (by early_idt_init: the normal ones).
C17_DispatchersAgree ==
  /\ dpc = "dispatch" =>
       LET a == stage2_generic_idt_handler(ctx, cr2)
           b == stage2_generic_idt_handler_no_ghcb(ctx, cr2)
       IN /\ Outcome(a) = Outcome(b)
          /\ a.kind = "call" =>
               /\ a.handler = "stage2_handle_vc_exception"
               /\ b.handler = "stage2_handle_vc_exception_no_ghcb"
  /\ variant = "no_ghcb" => vc_called # "stage2_handle_vc_exception"
  /\ variant = "ghcb" => vc_called # "stage2_handle_vc_exception_no_ghcb"
  /\ \A c \in DOMAIN cpu :
       /\ dpc = "push_regs_no_ghcb" => cpu[c].array = "no_ghcb"
       /\ dpc = "push_regs_stage2" => cpu[c].array = "ghcb"
       /\ dpc \in {"dispatch", "vc", "returned", "panic"}
            => variant = cpu[c].array
       /\ dpc \in {"vc", "returned"} => vc_called = VcHandler(cpu[c].array)

\* C17 witness: a #VC through the table of early_idt_init_no_ghcb was
\* handed to the handler that does not use the GHCB.
C17_Witness ==
  /\ dpc = "vc" /\ cpu[0].array = "no_ghcb" /\ ctx.vector = VC_VECTOR
  /\ vc_called = "stage2_handle_vc_exception_no_ghcb"

\* C17 witness: an unhandled vector through the table of early_idt_init.
C17_WitnessGhcb ==
  /\ dpc = "panic" /\ cpu[0].array = "ghcb" /\ variant = "ghcb"
  /\ diag = Unhandled(ctx) /\ ctx.vector = 3

\* ------------------------------------------- the unwinder, further properties
\* The frame check_unwound_frame builds from a candidate it accepts.
FrameOf(c) ==
  [rbp |-> c.rbp, rip |-> c.rip, rsp |-> c.rsp, is_last |-> c.rbp = 0,
   is_exception_frame |-> is_exception_handler_return_site(c.rip)]
SameFrame(f, g) ==
  /\ f.rbp = g.rbp /\ f.rip = g.rip /\ f.rsp = g.rsp
  /\ f.is_last = g.is_last /\ f.is_exception_frame = g.is_exception_frame

\* C16: a candidate whose rsp is in a region and whose rip is a return site
\* or whose rbp is 0 becomes a Valid frame, whatever the order of rbp and
\* rsp, and is the item the next call of next() returns; a candidate whose
\* rsp is in a region is refused only when it is neither last nor an
\* exception frame and has rbp < rsp.
C16_ProgressWaivedForLastAndException ==
  /\ [](chk.called =>
          /\ (/\ InSomeStack(chk.rsp)
              /\ \/ is_exception_handler_return_site(chk.rip)
                 \/ chk.rbp = 0)
             => /\ next_frame.some /\ IsValid(next_frame.val)
                /\ SameFrame(next_frame.val.frame, FrameOf(chk))
          /\ (InSomeStack(chk.rsp) /\ next_frame = Some(Invalid))
             => /\ chk.rbp # 0
                /\ ~is_exception_handler_return_site(chk.rip)
                /\ chk.rbp < chk.rsp)
  /\ [][(pc = "iter" /\ next_frame.some) => ret' = next_frame]_vars

\* C16 witness: an exception frame with rbp below rsp was accepted.
C16_Witness ==
  /\ chk.called /\ chk.rip = ReturnSite /\ chk.rbp # 0
  /\ chk.rbp < chk.rsp /\ InSomeStack(chk.rsp)
  /\ next_frame.some /\ IsValid(next_frame.val)

\* C16 witness: that frame was yielded.
C16_WitnessYielded ==
  /\ ret.some /\ IsValid(ret.val)
  /\ ret.val.frame.is_exception_frame /\ ~ret.val.frame.is_last
  /\ ret.val.frame.rbp < ret.val.frame.rsp

\* A Valid frame that is both the last frame and an exception frame.
LastAndException(x) ==
  /\ x.some /\ IsValid(x.val)
  /\ x.val.frame.rbp = 0
  /\ is_exception_handler_return_site(x.val.frame.rip)

\* C18: the call of next() that yields a Valid frame with rbp = 0 and a
\* return-site rip leaves next_frame None and reads no memory; every call
\* after it returns None and reads no memory either.
C18_LastBeatsException ==
  /\ [](LastAndException(ret) => (next_frame = NoneV /\ acc = NoAccess))
  /\ [][(pc = "iter" /\ LastAndException(next_frame))
          => (ret' = next_frame /\ next_frame' = NoneV /\ mem' = mem)]_vars
  /\ [][(pc = "iter" /\ ~next_frame.some)
          => (~ret'.some /\ next_frame' = NoneV /\ mem' = mem
              /\ acc' = NoAccess)]_vars

\* C18 witness: such a frame was yielded, and an Exception Context at its
\* rsp would have fitted in a region.
C18_Witness ==
  /\ LastAndException(ret) /\ ret.val.frame.is_exception_frame
  /\ ret.val.frame.is_last /\ Fits(ret.val.frame.rsp, CtxSize)
  /\ next_frame = NoneV

\* C18 witness: next() was called once more after it.
C18_WitnessEnded ==
  /\ ~ret.some /\ Len(yielded) >= 1 /\ LastAndException(Some(yielded[Len(yielded)]))

\* The items of the sequence so far, the one about to be yielded included.
Items ==
  IF next_frame.some /\ Len(yielded) < MaxYield
    THEN Append(yielded, next_frame.val) ELSE yielded
Ordinary(x) ==
  IsValid(x) /\ ~x.frame.is_last /\ ~x.frame.is_exception_frame
OrdinaryAt == {i \in DOMAIN Items : Ordinary(Items[i])}
\* Total size of the configured regions.
TotalSize ==
  (stacks[1].end - stacks[1].start) + (stacks[2].end - stacks[2].start)
    + (stacks[3].end - stacks[3].start)

\* C19: of two consecutive ordinary frames the second has rsp = rbp of the
\* first + 16 bytes and rbp >= rbp of the first + 16 bytes; a sequence
\* without exception frame has no two ordinary frames with the same rbp
\* and at most (total size of the regions) / 16 bytes ordinary frames.
C19_OrdinaryFramesClimb ==
  /\ \A i \in DOMAIN Items :
       (i + 1 \in DOMAIN Items /\ Ordinary(Items[i]) /\ Ordinary(Items[i + 1]))
       => /\ Items[i + 1].frame.rsp = Items[i].frame.rbp + 2
          /\ Items[i + 1].frame.rbp >= Items[i].frame.rbp + 2
  /\ (\A i \in DOMAIN Items :
        IsValid(Items[i]) => ~Items[i].frame.is_exception_frame)
     => /\ \A i, j \in OrdinaryAt :
             i < j => Items[i].frame.rbp < Items[j].frame.rbp
        /\ 2 * Cardinality(OrdinaryAt) <= TotalSize

\* C19 witness: three ordinary frames in a row.
C19_Witness ==
  /\ Len(Items) >= 3
  /\ Ordinary(Items[1]) /\ Ordinary(Items[2]) /\ Ordinary(Items[3])

\* ------------------------------------------------------------- get_report
Returned == greq.pc \in {"done", "idle"} /\ greq.ret.some

\* C15: get_report returns Ok(n) only when the request parsed and had
\* VMPL 0, one request was sent, the driver returned the length n, n is at
\* least the size of the report response, and the response parsed and
\* validated; a request that parsed with another VMPL gets the
\* invalid-parameter error with nothing sent; an error of the driver is
\* the result; and no call sends more than one request, of the kind the
\* entry point asks for.
C15_ReportResult ==
  /\ Len(greq.sent) <= 1
  /\ \A i \in DOMAIN greq.sent :
       greq.sent[i] = IF greq.certs THEN "extended" ELSE "regular"
  /\ Returned =>
       /\ greq.ret.val.ok =>
            /\ greq.buffer.request_ok /\ greq.buffer.vmpl = 0
            /\ Len(greq.sent) = 1
            /\ greq.driver = Some([ok |-> TRUE, val |-> greq.ret.val.val])
            /\ greq.ret.val.val >= REPORT_RESPONSE_SIZE
            /\ greq.buffer.response_ok /\ greq.buffer.response_valid
       /\ (greq.buffer.request_ok /\ greq.buffer.vmpl # 0) =>
            /\ greq.ret.val =
                 [ok |-> FALSE,
                  err |-> [kind |-> "InvalidParameter", from |-> "get_report"]]
            /\ greq.sent = << >>
       /\ (greq.driver.some /\ ~greq.driver.val.ok) =>
            greq.ret = greq.driver

\* C15 witness: get_extended_report returned Ok with a response longer than
\* the report response.
C15_Witness ==
  /\ greq.pc = "done" /\ greq.certs /\ greq.ret.val.ok
  /\ greq.ret.val.val = REPORT_RESPONSE_SIZE + 1
  /\ greq.sent = << "extended" >>

\* C15 witness: the driver failed fatally and get_regular_report returned
\* that error.
C15_WitnessDriverError ==
  /\ greq.pc = "done" /\ ~greq.certs /\ greq.sent = << "regular" >>
  /\ greq.ret = Some([ok |-> FALSE,
                      err |-> [kind |-> "FatalError", from |-> "driver"]])

\* C15 witness: a request for another VMPL was refused.
C15_WitnessVmpl ==
  /\ greq.pc = "done" /\ greq.buffer.request_ok /\ greq.buffer.vmpl = 2
  /\ greq.sent = << >> /\ ~greq.ret.val.ok
====
